---- MODULE Spec2Model ----
(***************************************************************************)
(* f1-game-telemetry: the TelemetryBuilder, the subscription list it       *)
(* builds, and the receive / decode / forward loop of                      *)
(* Telemetry::transmitter.                                                 *)
(*                                                                         *)
(* A byte array is kept sparsely: the set of <<offset, value>> pairs of    *)
(* its non-zero bytes (offsets from 0); every other byte is 0.  This is    *)
(* an exact image of the [u8; BUFFER_SIZE] receive buffer.                 *)
(***************************************************************************)
EXTENDS Integers, Sequences, FiniteSets, TLC

VARIABLES
    builder,    \* TelemetryBuilder: field name -> None or the recorded id
    nadds,      \* number of builder operations applied so far
    phase,      \* the caller: "builder" | "telemetry" (after build()) |
                \*   "recorded" (after record() has returned)
    data,       \* Telemetry.data: the Vec<u8> produced by build()
    pc,         \* the spawned task: "none" | "spawned" | "listening" |
                \*   "processing" | "bind_failed" | "panicked"
    buf,        \* transmitter's receive buffer
    queue,      \* the unbounded channel: messages sent and not yet taken
    rxAlive,    \* the consumer end of the channel still exists
    nrecv,      \* number of datagrams received so far
    pc2,        \* the task of a second record() call, as pc
    buf2,       \* that task's receive buffer
    called,     \* observation: the add operations called on the builder
    last        \* observation: the datagram of the current / latest iteration
                \*   and what the iteration did with it

\* the state of the task of a second record() call
task2 == <<pc2, buf2>>

vars ==
    <<builder, nadds, phase, data, pc, buf, queue, rxAlive, nrecv, called,
      last, pc2, buf2>>

\* Option<u8>: None, Some(x)
None == <<>>
Some(x) == <<x>>

\* a match arm that selects no schema
NoSchema == "none"

-----------------------------------------------------------------------------
(* Bounds of the model *)

\* builder operations applied before build() in the whole-program specification
MaxAdds == 1
\* builder operations applied before build() in the builder-only specification
MaxBuilderOps == 3
\* datagrams received by one run of the loop
MaxRecv == 2

-----------------------------------------------------------------------------
(* lib.rs constants *)

\* (mutant) the 1024-byte buffer of the echo server main.rs was written from
BUFFER_SIZE_of_echo_server == 2 ^ 10

BUFFER_SIZE == 10024

\* Event string codes, as the four bytes that binread turns into chars.
SSTA == <<83, 83, 84, 65>>
SEND == <<83, 69, 78, 68>>
FTLP == <<70, 84, 76, 80>>
RTMT == <<82, 84, 77, 84>>
DRSE == <<68, 82, 83, 69>>
DRSD == <<68, 82, 83, 68>>
TMPT == <<84, 77, 80, 84>>
CHQF == <<67, 72, 81, 70>>
RCWN == <<82, 67, 87, 78>>
PENA == <<80, 69, 78, 65>>
SPTP == <<83, 80, 84, 80>>
STLG == <<83, 84, 76, 71>>
LGOT == <<76, 71, 79, 84>>
DTSV == <<68, 84, 83, 86>>
SGSV == <<83, 71, 83, 86>>
FLBK == <<70, 76, 66, 75>>
BUTN == <<66, 85, 84, 78>>

\* (mutant) STLG listed among the unsupported events
UNSUPPORTED_EVENT_with_STLG == {SSTA, SEND, DRSE, DRSD, CHQF, LGOT, STLG}

UNSUPPORTED_EVENT == {SSTA, SEND, DRSE, DRSD, CHQF, LGOT}

-----------------------------------------------------------------------------
(* telemetry.rs: the fixed byte width of every record, field by field.     *)
(* u8/i8/char = 1, u16 = 2, u32/f32 = 4, u64/f64 = 8; binread reads the    *)
(* fields in declared order with no padding.                               *)

PacketHeaderSize == 2 + 1 + 1 + 1 + 1 + 8 + 4 + 4 + 1 + 1

\* offset of PacketHeader.packet_id: after packet_format, game_major_version,
\* game_minor_version, packet_version
PacketIdOffset == 2 + 1 + 1 + 1

NumCars == 22

CarStatusDataSize ==
    1 + 1 + 1 + 1 + 1 + 4 + 4 + 4 + 2 + 2 + 1 + 1 + 2 + 1 + 1 + 1 + 1
      + 4 + 1 + 4 + 4 + 4 + 1

\* offset of CarStatusData.fuel_in_tank inside one CarStatusData
FuelInTankOffset == 1 + 1 + 1 + 1 + 1

PacketCarStatusDataSize == PacketHeaderSize + NumCars * CarStatusDataSize

CarMotionDataSize == 6 * 4 + 6 * 2 + 6 * 4

PacketMotionDataSize ==
    PacketHeaderSize + NumCars * CarMotionDataSize + 5 * (4 * 4) + 10 * 4

FinalClassificationDataSize ==
    1 + 1 + 1 + 1 + 1 + 1 + 4 + 8 + 1 + 1 + 1 + 8 + 8 + 8

PacketFinalClassificationDataSize ==
    PacketHeaderSize + 1 + NumCars * FinalClassificationDataSize

MarshalZoneSize == 4 + 1

WeatherForecastSampleSize == 1 + 1 + 1 + 1 + 1 + 1 + 1 + 1

PacketSessionDataSize ==
    PacketHeaderSize
      + 1 + 1 + 1 + 1 + 2 + 1 + 1 + 1 + 2 + 2 + 1 + 1 + 1 + 1 + 1 + 1
      + 21 * MarshalZoneSize
      + 1 + 1 + 1
      + 21 * WeatherForecastSampleSize
      + 1 + 1 + 4 + 4 + 4 + 1 + 1 + 1 + 1 + 1 + 1 + 1 + 1 + 1 + 1 + 1 + 1
      + 1 + 1 + 4 + 1

LapDataSize ==
    4 + 4 + 2 + 2 + 4 + 4 + 4
      + 1 + 1 + 1 + 1 + 1 + 1 + 1 + 1 + 1 + 1 + 1 + 1 + 1
      + 1 + 2 + 2 + 1

PacketLapDataSize == PacketHeaderSize + NumCars * LapDataSize + 1 + 1

ParticipantDataSize == 1 + 1 + 1 + 1 + 1 + 1 + 1 + 48 + 1

PacketParticipantsDataSize ==
    PacketHeaderSize + 1 + NumCars * ParticipantDataSize

CarSetupDataSize ==
    1 + 1 + 1 + 1 + 4 + 4 + 4 + 4 + 1 + 1 + 1 + 1 + 1 + 1 + 1 + 1
      + 4 + 4 + 4 + 4 + 1 + 4

PacketCarSetupDataSize == PacketHeaderSize + NumCars * CarSetupDataSize

CarTelemetryDataSize ==
    2 + 4 + 4 + 4 + 1 + 1 + 2 + 1 + 1 + 2 + 4 * 2 + 4 * 1 + 4 * 1 + 2
      + 4 * 4 + 4 * 1

PacketCarTelemetryDataSize ==
    PacketHeaderSize + NumCars * CarTelemetryDataSize + 1 + 1 + 1

LobbyInfoDataSize == 1 + 1 + 1 + 48 + 1 + 1

PacketLobbyInfoDataSize == PacketHeaderSize + 1 + NumCars * LobbyInfoDataSize

CarDamageDataSize ==
    4 * 4 + 4 * 1 + 4 * 1
      + 1 + 1 + 1 + 1 + 1 + 1 + 1 + 1 + 1 + 1 + 1 + 1 + 1 + 1 + 1 + 1 + 1 + 1

PacketCarDamageDataSize == PacketHeaderSize + NumCars * CarDamageDataSize

LapHistoryDataSize == 4 + 2 + 2 + 2 + 1

TyreStintHistoryDataSize == 1 + 1 + 1

PacketSessionHistoryDataSize ==
    PacketHeaderSize + 1 + 1 + 1 + 1 + 1 + 1 + 1
      + 100 * LapHistoryDataSize + 8 * TyreStintHistoryDataSize

\* the payload structs of PacketEventData<T>
EventPayloadSize(t) ==
    CASE t = "EventFastestLap" -> 1 + 4
      [] t = "EventRetirement" -> 1
      [] t = "EventTeamMateInPits" -> 1
      [] t = "EventRaceWinner" -> 1
      [] t = "EventPenalty" -> 1 + 1 + 1 + 1 + 1 + 1 + 1
      [] t = "EventSpeedTrap" -> 1 + 4 + 1 + 1 + 1 + 4
      [] t = "EventStartLights" -> 1
      [] t = "EventDriveThroughPenaltyServed" -> 1
      [] t = "EventStopGoPenaltyServed" -> 1
      [] t = "EventFlashback" -> 4 + 4
      [] t = "EventButtons" -> 4

EventPayloads ==
    {"EventFastestLap", "EventRetirement", "EventTeamMateInPits",
     "EventRaceWinner", "EventPenalty", "EventSpeedTrap", "EventStartLights",
     "EventDriveThroughPenaltyServed", "EventStopGoPenaltyServed",
     "EventFlashback", "EventButtons"}

\* offset of PacketEventData.event_string_code, and of event_details
EventCodeOffset == PacketHeaderSize
EventDetailsOffset == PacketHeaderSize + 4

\* PacketEventData<T>: header, event_string_code: [char; 4], event_details: T
PacketEventDataSize(t) == EventDetailsOffset + EventPayloadSize(t)

\* A schema is named by its Rust type; an event schema by its payload type.
SizeOf(schema) ==
    CASE schema = "PacketMotionData" -> PacketMotionDataSize
      [] schema = "PacketSessionData" -> PacketSessionDataSize
      [] schema = "PacketLapData" -> PacketLapDataSize
      [] schema = "PacketParticipantsData" -> PacketParticipantsDataSize
      [] schema = "PacketCarSetupData" -> PacketCarSetupDataSize
      [] schema = "PacketCarTelemetryData" -> PacketCarTelemetryDataSize
      [] schema = "PacketCarStatusData" -> PacketCarStatusDataSize
      [] schema = "PacketFinalClassificationData" ->
             PacketFinalClassificationDataSize
      [] schema = "PacketLobbyInfoData" -> PacketLobbyInfoDataSize
      [] schema = "PacketCarDamageData" -> PacketCarDamageDataSize
      [] schema = "PacketSessionHistoryData" -> PacketSessionHistoryDataSize
      [] schema \in EventPayloads -> PacketEventDataSize(schema)

\* The arrays that follow a count field: the record, the offset of the
\* count field, the offset of the array, the width of one element and the
\* number of elements in the array's type.
CountedArrays ==
    {[schema |-> "PacketParticipantsData", count |-> PacketHeaderSize,
      first |-> PacketHeaderSize + 1, width |-> ParticipantDataSize,
      slots |-> NumCars],
     [schema |-> "PacketSessionData", count |-> PacketHeaderSize + 18,
      first |-> PacketHeaderSize + 19, width |-> MarshalZoneSize,
      slots |-> 21],
     [schema |-> "PacketSessionData",
      count |-> PacketHeaderSize + 19 + 21 * MarshalZoneSize + 2,
      first |-> PacketHeaderSize + 19 + 21 * MarshalZoneSize + 3,
      width |-> WeatherForecastSampleSize, slots |-> 21],
     [schema |-> "PacketFinalClassificationData", count |-> PacketHeaderSize,
      first |-> PacketHeaderSize + 1, width |-> FinalClassificationDataSize,
      slots |-> NumCars],
     [schema |-> "PacketLobbyInfoData", count |-> PacketHeaderSize,
      first |-> PacketHeaderSize + 1, width |-> LobbyInfoDataSize,
      slots |-> NumCars],
     [schema |-> "PacketSessionHistoryData", count |-> PacketHeaderSize + 1,
      first |-> PacketHeaderSize + 7, width |-> LapHistoryDataSize,
      slots |-> 100],
     [schema |-> "PacketSessionHistoryData", count |-> PacketHeaderSize + 2,
      first |-> PacketHeaderSize + 7 + 100 * LapHistoryDataSize,
      width |-> TyreStintHistoryDataSize, slots |-> 8]}

-----------------------------------------------------------------------------
(* Byte arrays *)

ZeroBytes == {}

ByteAt(bytes, off) ==
    IF \E p \in bytes : p[1] = off
    THEN (CHOOSE p \in bytes : p[1] = off)[2]
    ELSE 0

\* the first n bytes of a byte array
Prefix(bytes, n) == {p \in bytes : p[1] < n}

\* little-endian reads, as binread's read_le does them
U8At(bytes, off) == ByteAt(bytes, off)

U32At(bytes, off) ==
    ByteAt(bytes, off) + 256 * ByteAt(bytes, off + 1)
      + 65536 * ByteAt(bytes, off + 2) + 16777216 * ByteAt(bytes, off + 3)

\* [char; 4]: four single bytes, each turned into a char
Chars4At(bytes, off) ==
    <<ByteAt(bytes, off), ByteAt(bytes, off + 1), ByteAt(bytes, off + 2),
      ByteAt(bytes, off + 3)>>

Min(a, b) == IF a < b THEN a ELSE b

-----------------------------------------------------------------------------
(* TelemetryBuilder *)

Fields ==
    {"events_data", "car_status_data", "motion_data",
     "final_classification_data", "session_data", "lap_data",
     "participants_data", "car_setup_data", "car_telemetry_data",
     "lobby_info_data", "car_damage_data", "session_history_data"}

\* TelemetryBuilder::new
new == [f \in Fields |-> None]

add_events_data(b) == [b EXCEPT !.events_data = Some(3)]
add_car_status_data(b) == [b EXCEPT !.car_status_data = Some(7)]
\* (mutant) add_motion_data records the id of the session packet
add_motion_data_as_session(b) == [b EXCEPT !.motion_data = Some(1)]

add_motion_data(b) == [b EXCEPT !.motion_data = Some(0)]
add_final_classification_data(b) ==
    [b EXCEPT !.final_classification_data = Some(8)]
add_session_data(b) == [b EXCEPT !.session_data = Some(1)]
\* (mutant) add_lap_data switches the category on and off
add_lap_data_toggle(b) ==
    [b EXCEPT !.lap_data = IF b.lap_data = None THEN Some(2) ELSE None]

add_lap_data(b) == [b EXCEPT !.lap_data = Some(2)]
add_participant_data(b) == [b EXCEPT !.participants_data = Some(4)]
add_car_setup_data(b) == [b EXCEPT !.car_setup_data = Some(5)]
add_car_telemetry_data(b) == [b EXCEPT !.car_telemetry_data = Some(6)]
add_lobby_info_data(b) == [b EXCEPT !.lobby_info_data = Some(9)]
add_car_damage_data(b) == [b EXCEPT !.car_damage_data = Some(10)]
\* (mutant) add_session_history_data records the first id after the categories
add_session_history_data_as_12(b) ==
    [b EXCEPT !.session_history_data = Some(12)]

add_session_history_data(b) == [b EXCEPT !.session_history_data = Some(11)]

add_all_data(b) ==
    add_session_history_data(
     add_car_damage_data(
      add_lobby_info_data(
       add_car_telemetry_data(
        add_car_setup_data(
         add_participant_data(
          add_lap_data(
           add_session_data(
            add_final_classification_data(
             add_motion_data(
              add_car_status_data(b)))))))))))

\* the array as_array returns, in its order
as_array(b) ==
    <<b.events_data, b.car_damage_data, b.motion_data,
      b.final_classification_data, b.session_data, b.lap_data,
      b.participants_data, b.car_setup_data, b.car_telemetry_data,
      b.lobby_info_data, b.car_damage_data, b.session_history_data>>

\* into_iter().flatten().collect(): the Some values, in order
RECURSIVE Flatten(_)
Flatten(arr) ==
    IF arr = <<>> THEN <<>>
    ELSE Head(arr) \o Flatten(Tail(arr))

\* TelemetryBuilder::build: the data of the Telemetry it returns
build(b) == Flatten(as_array(b))

AddOps ==
    {"add_events_data", "add_car_status_data", "add_motion_data",
     "add_final_classification_data", "add_session_data", "add_lap_data",
     "add_participant_data", "add_car_setup_data", "add_car_telemetry_data",
     "add_lobby_info_data", "add_car_damage_data",
     "add_session_history_data", "add_all_data"}

\* the builder method named op, applied to b
Apply(op, b) ==
    CASE op = "add_events_data" -> add_events_data(b)
      [] op = "add_car_status_data" -> add_car_status_data(b)
      [] op = "add_motion_data" -> add_motion_data(b)
      [] op = "add_final_classification_data" ->
             add_final_classification_data(b)
      [] op = "add_session_data" -> add_session_data(b)
      [] op = "add_lap_data" -> add_lap_data(b)
      [] op = "add_participant_data" -> add_participant_data(b)
      [] op = "add_car_setup_data" -> add_car_setup_data(b)
      [] op = "add_car_telemetry_data" -> add_car_telemetry_data(b)
      [] op = "add_lobby_info_data" -> add_lobby_info_data(b)
      [] op = "add_car_damage_data" -> add_car_damage_data(b)
      [] op = "add_session_history_data" -> add_session_history_data(b)
      [] op = "add_all_data" -> add_all_data(b)

\* the individual add operations a builder method runs
Calls(op) == IF op = "add_all_data" THEN AddOps \ {"add_events_data", op} ELSE {op}

\* Vec::contains
Contains(vec, x) == \E i \in 1..Len(vec) : vec[i] = x

-----------------------------------------------------------------------------
(* Decoding: read_telemetry, read_event_telemetry *)

NoMsg == [schema |-> NoSchema, body |-> ZeroBytes]

\* The String read_telemetry::<T> returns: serde_json::to_string of the T
\* that read_le decodes from the start of the buffer.  The record T is a
\* function of the first SizeOf(T) bytes; the fields the properties speak of
\* are read from the body by the accessors below.
Message(T, buffer) == [schema |-> T, body |-> Prefix(buffer, SizeOf(T))]

\* Cursor::new(buffer).read_le::<T>() succeeds when the cursor, which spans
\* the whole buffer, holds the SizeOf(T) bytes of T.
ReadLeOk(size) == size <= BUFFER_SIZE

\* (mutant) the type parameter ignored: every call decodes PacketMotionData
read_telemetry_one_type(T, buffer) ==
    [ok |-> TRUE, val |-> Message("PacketMotionData", buffer),
     reads |-> <<"PacketMotionData">>]

\* (mutant) of an array that follows a count field only the first count
\* elements are decoded, the others are left at their default
read_telemetry_counted(T, buffer) ==
    [ok |-> TRUE,
     val |-> [schema |-> T,
              body |-> {p \in Prefix(buffer, SizeOf(T)) :
                          \A a \in CountedArrays :
                            a.schema = T =>
                              \/ p[1] < a.first
                                          + U8At(buffer, a.count) * a.width
                              \/ p[1] >= a.first + a.slots * a.width}],
     reads |-> <<T>>]

\* (mutant) a buffer whose bytes after the header spell an unsupported
\* event code fails to decode, whatever T is
read_telemetry_code_checked(T, buffer) ==
    IF ReadLeOk(SizeOf(T))
         /\ Chars4At(buffer, EventCodeOffset) \notin UNSUPPORTED_EVENT
    THEN [ok |-> TRUE, val |-> Message(T, buffer), reads |-> <<T>>]
    ELSE [ok |-> FALSE, val |-> NoMsg, reads |-> <<T>>]

\* read_telemetry::<T>(buffer); reads lists the types handed to read_le
read_telemetry(T, buffer) ==
    IF ReadLeOk(SizeOf(T))
    THEN [ok |-> TRUE, val |-> Message(T, buffer), reads |-> <<T>>]
    ELSE [ok |-> FALSE, val |-> NoMsg, reads |-> <<T>>]

\* (mutant) the match with the FTLP and RTMT arms exchanged
EventMatchArmsExchanged(event_type) ==
    CASE event_type = FTLP -> "EventRetirement"
      [] event_type = RTMT -> "EventFastestLap"
      [] event_type = TMPT -> "EventTeamMateInPits"
      [] event_type = RCWN -> "EventRaceWinner"
      [] event_type = PENA -> "EventPenalty"
      [] event_type = SPTP -> "EventSpeedTrap"
      [] event_type = STLG -> "EventStartLights"
      [] event_type = DTSV -> "EventDriveThroughPenaltyServed"
      [] event_type = SGSV -> "EventStopGoPenaltyServed"
      [] event_type = FLBK -> "EventFlashback"
      [] event_type = BUTN -> "EventButtons"
      [] OTHER -> NoSchema

\* the match of read_event_telemetry on the event string code: the payload
\* type to decode, or none
EventMatch(event_type) ==
    CASE event_type = SSTA -> NoSchema
      [] event_type = SEND -> NoSchema
      [] event_type = FTLP -> "EventFastestLap"
      [] event_type = RTMT -> "EventRetirement"
      [] event_type = DRSE -> NoSchema
      [] event_type = DRSD -> NoSchema
      [] event_type = TMPT -> "EventTeamMateInPits"
      [] event_type = CHQF -> NoSchema
      [] event_type = RCWN -> "EventRaceWinner"
      [] event_type = PENA -> "EventPenalty"
      [] event_type = SPTP -> "EventSpeedTrap"
      [] event_type = STLG -> "EventStartLights"
      [] event_type = LGOT -> NoSchema
      [] event_type = DTSV -> "EventDriveThroughPenaltyServed"
      [] event_type = SGSV -> "EventStopGoPenaltyServed"
      [] event_type = FLBK -> "EventFlashback"
      [] event_type = BUTN -> "EventButtons"
      [] OTHER -> NoSchema

\* read_event_telemetry(buffer): ok = FALSE is Err, ok with val = NoMsg is
\* Ok(None), ok with a message is Ok(Some(..))
read_event_telemetry(buffer) ==
    LET event_type == Chars4At(buffer, EventCodeOffset)
        T == EventMatch(event_type)
        first == <<"EventFlashback">>
    IN  IF ~ReadLeOk(PacketEventDataSize("EventFlashback"))
        THEN [ok |-> FALSE, val |-> NoMsg, reads |-> first]
        ELSE IF event_type \in UNSUPPORTED_EVENT
        THEN [ok |-> TRUE, val |-> NoMsg, reads |-> first]
        ELSE IF T = NoSchema
        THEN [ok |-> TRUE, val |-> NoMsg, reads |-> first]
        ELSE LET r == read_telemetry(T, buffer)
             IN  [ok |-> r.ok, val |-> r.val, reads |-> first \o r.reads]

-----------------------------------------------------------------------------
(* Telemetry::transmitter: one iteration of the loop after recv *)

\* (mutant) packet_id read one field early, where packet_version lies
packet_id_one_field_early(buffer) == U8At(buffer, PacketIdOffset - 1)

\* pkt_hdr.packet_id of the PacketHeader read from the buffer
packet_id(buffer) == U8At(buffer, PacketIdOffset)

\* (mutant) the event arm with Ok(None) turned into an empty message
\* instead of an error
EventArmEmptyForNone(buffer) ==
    LET ev == read_event_telemetry(buffer)
    IN  IF ev.ok
        THEN [kind |-> "tel", ok |-> TRUE,
              val |-> IF ev.val = NoMsg
                      THEN [schema |-> "empty", body |-> ZeroBytes]
                      ELSE ev.val,
              reads |-> ev.reads]
        ELSE [kind |-> "continue", ok |-> FALSE, val |-> NoMsg,
              reads |-> ev.reads]

\* arm 3 of the match: Ok(Some(s)) is Ok(s), Ok(None) is Err, Err continues
EventArm(buffer) ==
    LET ev == read_event_telemetry(buffer)
    IN  IF ev.ok
        THEN [kind |-> "tel", ok |-> ev.val # NoMsg, val |-> ev.val,
              reads |-> ev.reads]
        ELSE [kind |-> "continue", ok |-> FALSE, val |-> NoMsg,
              reads |-> ev.reads]

\* the category match on packet_id; kind "tel" carries the Result bound to
\* tel, kind "continue" is an arm that continues the loop
MatchPacketId(id, buffer) ==
    LET tel(r) == [kind |-> "tel", ok |-> r.ok, val |-> r.val,
                   reads |-> r.reads]
    IN  CASE id = 0 -> tel(read_telemetry("PacketMotionData", buffer))
          [] id = 1 -> tel(read_telemetry("PacketSessionData", buffer))
          [] id = 2 -> tel(read_telemetry("PacketLapData", buffer))
          [] id = 3 -> EventArm(buffer)
          [] id = 4 -> tel(read_telemetry("PacketParticipantsData", buffer))
          [] id = 5 -> tel(read_telemetry("PacketCarSetupData", buffer))
          [] id = 6 -> tel(read_telemetry("PacketCarTelemetryData", buffer))
          [] id = 7 -> tel(read_telemetry("PacketCarStatusData", buffer))
          [] id = 8 ->
               tel(read_telemetry("PacketFinalClassificationData", buffer))
          [] id = 9 -> tel(read_telemetry("PacketLobbyInfoData", buffer))
          [] id = 10 -> tel(read_telemetry("PacketCarDamageData", buffer))
          [] id = 11 ->
               tel(read_telemetry("PacketSessionHistoryData", buffer))
          [] OTHER -> [kind |-> "continue", ok |-> FALSE, val |-> NoMsg,
                       reads |-> <<>>]

\* (mutant) the subscription check never continues
NotInterestedNever(subs, id) == FALSE

\* !data.contains(&pkt_hdr.packet_id)
NotInterested(subs, id) == ~Contains(subs, id)

\* (mutant) packets whose packet_format is not 0 are taken as not wanted
IterationRoutesOnFormat(subs, buffer) ==
    LET id == packet_id(buffer)
        m == MatchPacketId(id, buffer)
    IN  IF NotInterested(subs, id) \/ U8At(buffer, 0) # 0
        THEN [kind |-> "not_wanted", msg |-> NoMsg, reads |-> <<>>]
        ELSE IF m.kind = "continue"
        THEN [kind |-> "skipped", msg |-> NoMsg, reads |-> m.reads]
        ELSE IF ~m.ok
        THEN [kind |-> "failed", msg |-> NoMsg, reads |-> m.reads]
        ELSE [kind |-> "send", msg |-> m.val, reads |-> m.reads]

\* (mutant) a failed decode is handed to the channel as an empty message
IterationForwardsFailures(subs, buffer) ==
    LET id == packet_id(buffer)
        m == MatchPacketId(id, buffer)
    IN  IF NotInterested(subs, id)
        THEN [kind |-> "not_wanted", msg |-> NoMsg, reads |-> <<>>]
        ELSE IF m.kind = "continue"
        THEN [kind |-> "skipped", msg |-> NoMsg, reads |-> m.reads]
        ELSE [kind |-> "send", msg |-> m.val, reads |-> m.reads]

\* What one iteration does with the buffer, up to the send:
\*   "not_wanted"  the subscription check continued the loop
\*   "skipped"     a match arm continued the loop
\*   "failed"      tel was Err
\*   "send"        tel was Ok(msg): msg is handed to tx.send
Iteration(subs, buffer) ==
    LET id == packet_id(buffer)
        m == MatchPacketId(id, buffer)
    IN  IF NotInterested(subs, id)
        THEN [kind |-> "not_wanted", msg |-> NoMsg, reads |-> <<>>]
        ELSE IF m.kind = "continue"
        THEN [kind |-> "skipped", msg |-> NoMsg, reads |-> m.reads]
        ELSE IF ~m.ok
        THEN [kind |-> "failed", msg |-> NoMsg, reads |-> m.reads]
        ELSE [kind |-> "send", msg |-> m.val, reads |-> m.reads]

\* socket.recv(&mut buf): the datagram's bytes replace the start of the
\* buffer, the bytes after them stay as they were
RecvInto(buffer, d) ==
    LET n == Min(d.len, BUFFER_SIZE)
    IN  {p \in buffer : p[1] >= n} \cup Prefix(d.bytes, n)

-----------------------------------------------------------------------------
(* The sender: the datagrams the loop is fed *)

\* the record the game sends under each packet id (events: see below)
WireSchema(id) ==
    CASE id = 0 -> "PacketMotionData"
      [] id = 1 -> "PacketSessionData"
      [] id = 2 -> "PacketLapData"
      [] id = 4 -> "PacketParticipantsData"
      [] id = 5 -> "PacketCarSetupData"
      [] id = 6 -> "PacketCarTelemetryData"
      [] id = 7 -> "PacketCarStatusData"
      [] id = 8 -> "PacketFinalClassificationData"
      [] id = 9 -> "PacketLobbyInfoData"
      [] id = 10 -> "PacketCarDamageData"
      [] id = 11 -> "PacketSessionHistoryData"

\* the bytes of a u32 / f32 bit pattern v written little-endian at off
LeBytes32(off, v) ==
    {<<off + i, (v \div (256 ^ i)) % 256>> : i \in 0..3}

CodeBytes(code) == {<<EventCodeOffset + i - 1, code[i]>> : i \in 1..4}

\* a datagram of len bytes with the given packet id and the given other
\* non-zero bytes
Craft(id, len, others) ==
    [len |-> len,
     bytes |-> {p \in Prefix({<<PacketIdOffset, id>>} \cup others, len) :
                   p[2] # 0}]

\* offset of car 0's fuel_in_tank in PacketCarStatusData
Car0FuelOffset == PacketHeaderSize + FuelInTankOffset

\* 55.5 as an IEEE-754 f32: 0x425E0000
FuelBits == 66 * 16777216 + 94 * 65536

\* the num_lights value the sender puts into its StartLights events
LightsSample == 3

PayloadCodes ==
    {FTLP, RTMT, TMPT, RCWN, PENA, SPTP, STLG, DTSV, SGSV, FLBK, BUTN}

\* a 4-character code the match does not name
XXXX == <<88, 88, 88, 88>>

CategoryIds == 0..11

UnknownIds == {12, 255}

\* well-formed datagrams of the 11 non-event categories, payload all zero
CategoryDatagrams ==
    {Craft(id, SizeOf(WireSchema(id)), {}) : id \in CategoryIds \ {3}}

\* a CarStatus datagram, all zero except car 0's fuel_in_tank = 55.5
FuelDatagram ==
    Craft(7, PacketCarStatusDataSize, LeBytes32(Car0FuelOffset, FuelBits))

\* the details the game sends with each payload-bearing event code
PayloadOfCode(code) ==
    CASE code = FTLP -> "EventFastestLap"
      [] code = RTMT -> "EventRetirement"
      [] code = TMPT -> "EventTeamMateInPits"
      [] code = RCWN -> "EventRaceWinner"
      [] code = PENA -> "EventPenalty"
      [] code = SPTP -> "EventSpeedTrap"
      [] code = STLG -> "EventStartLights"
      [] code = DTSV -> "EventDriveThroughPenaltyServed"
      [] code = SGSV -> "EventStopGoPenaltyServed"
      [] code = FLBK -> "EventFlashback"
      [] code = BUTN -> "EventButtons"

RECURSIVE MaxOf(_)
MaxOf(S) ==
    LET x == CHOOSE x \in S : TRUE
    IN  IF S = {x} THEN x
        ELSE LET m == MaxOf(S \ {x}) IN IF x > m THEN x ELSE m

\* the game sends every event in a packet as wide as the widest details
EventPacketSize ==
    EventDetailsOffset + MaxOf({EventPayloadSize(t) : t \in EventPayloads})

\* a well-formed event datagram: a code and the first byte of its details
Event(code, detail0) ==
    Craft(3, EventPacketSize,
          CodeBytes(code) \cup {<<EventDetailsOffset, detail0>>})

\* the six codes the game sends without details
ZeroPayloadCodes == {SSTA, SEND, DRSE, DRSD, CHQF, LGOT}

EventDatagrams ==
    {Event(code, 0) : code \in PayloadCodes \cup ZeroPayloadCodes \cup {XXXX}}
      \cup {Event(STLG, LightsSample)}

\* datagrams with a packet id no category has
UnknownDatagrams == {Craft(id, PacketHeaderSize, {}) : id \in UnknownIds}

\* datagrams shorter than the record their packet id selects: a Motion
\* header alone, a StartLights event cut after its code, an empty datagram
ShortDatagrams ==
    {Craft(0, PacketHeaderSize, {}),
     Craft(3, EventDetailsOffset, CodeBytes(STLG)),
     Craft(0, 0, {})}

\* every header field other than packet_id set to a non-zero value
HeaderNoise ==
    {<<off, 200>> : off \in (0..(PacketHeaderSize - 1)) \ {PacketIdOffset}}

\* datagrams that differ from the ones above in bytes that are not the
\* packet id or the event code: a Motion packet with the other header
\* fields set and SSTA in the four bytes after its header, a Session packet
\* with XXXX there, an event with an unknown code, the other header fields
\* set and a non-zero first details byte
NoisyDatagrams ==
    {Craft(0, PacketMotionDataSize, HeaderNoise \cup CodeBytes(SSTA)),
     Craft(1, PacketSessionDataSize, CodeBytes(XXXX)),
     Craft(3, EventPacketSize,
           HeaderNoise \cup CodeBytes(XXXX)
             \cup {<<EventDetailsOffset, LightsSample>>})}

\* the values the sender puts into a count field
CountSamples == {1, 200}

\* a well-formed packet of record S with every count field set to c, a
\* mark in the first byte of the last element of every counted array and a
\* mark in the byte that follows the array
CountedDatagram(S, c) ==
    Craft(CHOOSE id \in CategoryIds \ {3} : WireSchema(id) = S, SizeOf(S),
          UNION {{<<a.count, c>>,
                  <<a.first + (a.slots - 1) * a.width, 170>>,
                  <<a.first + a.slots * a.width, 171>>} :
                    a \in {x \in CountedArrays : x.schema = S}})

CountedDatagrams ==
    {CountedDatagram(a.schema, c) : a \in CountedArrays, c \in CountSamples}

Datagrams ==
    CategoryDatagrams \cup {FuelDatagram} \cup EventDatagrams
      \cup UnknownDatagrams \cup ShortDatagrams \cup NoisyDatagrams

-----------------------------------------------------------------------------
(* The program *)

NoDatagram == [len |-> 0, bytes |-> ZeroBytes]

\* how the iteration before the current one ended
NoPrev == [kind |-> "none", delivered |-> FALSE]

NoLast ==
    [dgram |-> NoDatagram, done |-> FALSE, kind |-> "none", msg |-> NoMsg,
     reads |-> <<>>, delivered |-> FALSE, prev |-> NoPrev]

Init ==
    /\ builder = new
    /\ nadds = 0
    /\ phase = "builder"
    /\ data = <<>>
    /\ pc = "none"
    /\ buf = ZeroBytes
    /\ queue = <<>>
    /\ rxAlive = TRUE
    /\ nrecv = 0
    /\ called = {}
    /\ last = NoLast
    /\ pc2 = "none"
    /\ buf2 = ZeroBytes

\* builder.add_X(): one of the thirteen add operations
AddOp(op, limit) ==
    /\ phase = "builder"
    /\ nadds < limit
    /\ builder' = Apply(op, builder)
    /\ nadds' = nadds + 1
    /\ called' = called \cup Calls(op)
    /\ UNCHANGED <<phase, data, pc, buf, queue, rxAlive, nrecv, last>>
    /\ UNCHANGED task2

\* builder.build()
Build ==
    /\ phase = "builder"
    /\ phase' = "telemetry"
    /\ data' = build(builder)
    /\ UNCHANGED <<builder, nadds, pc, buf, queue, rxAlive, nrecv, called, last>>
    /\ UNCHANGED task2

\* (mutant) record() returns only once the task has bound its socket
RecordAwaitsBind ==
    /\ phase = "telemetry"
    /\ pc = "none"
    /\ phase' = "recorded"
    /\ pc' = "listening"
    /\ buf' = ZeroBytes
    /\ UNCHANGED <<builder, nadds, data, queue, rxAlive, nrecv, called, last>>
    /\ UNCHANGED task2

\* telemetry.record(tx): spawns transmitter with a clone of data; there is
\* no await in it, it returns once the task is spawned
Record ==
    /\ phase = "telemetry"
    /\ pc = "none"
    /\ phase' = "recorded"
    /\ pc' = "spawned"
    /\ UNCHANGED <<builder, nadds, data, buf, queue, rxAlive, nrecv, called,
                   last>>
    /\ UNCHANGED task2

\* a task in the loop holds the socket it bound to the endpoint
HoldsSocket(p) == p \in {"listening", "processing"}

\* UdpSocket::bind succeeds, which it does not while another socket is
\* bound to the endpoint; buf = [0; BUFFER_SIZE]; the loop is entered
BindOk ==
    /\ pc = "spawned"
    /\ ~HoldsSocket(pc2)
    /\ pc' = "listening"
    /\ buf' = ZeroBytes
    /\ UNCHANGED <<builder, nadds, phase, data, queue, rxAlive, nrecv, called,
                   last>>
    /\ UNCHANGED task2

\* UdpSocket::bind fails: unwrap panics, the task ends
BindFail ==
    /\ pc = "spawned"
    /\ pc' = "bind_failed"
    /\ UNCHANGED <<builder, nadds, phase, data, buf, queue, rxAlive, nrecv,
                   called, last>>
    /\ UNCHANGED task2

\* (mutant) the loop is entered although the bind failed
RecvWithoutSocket(d) ==
    /\ pc \in {"listening", "bind_failed"}
    /\ nrecv < MaxRecv
    /\ pc' = "processing"
    /\ buf' = RecvInto(buf, d)
    /\ nrecv' = nrecv + 1
    /\ last' = [NoLast EXCEPT !.dgram = d,
                              !.prev = [kind |-> last.kind,
                                        delivered |-> last.delivered]]
    /\ UNCHANGED <<builder, nadds, phase, data, queue, rxAlive, called>>
    /\ UNCHANGED task2

\* socket.recv(&mut buf) returns Ok: datagram d is now in the buffer
Recv(d) ==
    /\ pc = "listening"
    /\ nrecv < MaxRecv
    /\ pc' = "processing"
    /\ buf' = RecvInto(buf, d)
    /\ nrecv' = nrecv + 1
    /\ last' = [NoLast EXCEPT !.dgram = d,
                              !.prev = [kind |-> last.kind,
                                        delivered |-> last.delivered]]
    /\ UNCHANGED <<builder, nadds, phase, data, queue, rxAlive, called>>
    /\ UNCHANGED task2

\* socket.recv returns Err: unwrap panics, the task ends
RecvErr ==
    /\ pc = "listening"
    /\ pc' = "panicked"
    /\ UNCHANGED <<builder, nadds, phase, data, buf, queue, rxAlive, nrecv,
                   called, last>>
    /\ UNCHANGED task2

\* (mutant) every message is put on the channel twice
EnqueueTwice(q, msg) == q \o <<msg, msg>>

\* (mutant) the newest message overtakes the ones not yet taken
EnqueueAtFront(q, msg) == <<msg>> \o q

\* tx.send(tel) on an open unbounded channel: tel joins the end of what the
\* channel holds
Enqueue(q, msg) == Append(q, msg)

\* (mutant) a failed send ends the task
AfterSendErrEndsLoop(sent) == IF sent THEN "listening" ELSE "panicked"

\* match tx.send(tel): where the loop goes after a send that succeeded
\* (sent) or failed; both arms continue
AfterSend(sent) == "listening"

\* (mutant) the loop drops an id from its list once it has forwarded a
\* message of that id
ProcessConsumesId ==
    /\ pc = "processing"
    /\ LET r == Iteration(data, buf)
           ok == r.kind = "send" /\ rxAlive
       IN  /\ pc' = "listening"
           /\ queue' = IF ok THEN Append(queue, r.msg) ELSE queue
           /\ last' = [last EXCEPT !.done = TRUE, !.kind = r.kind,
                                   !.msg = r.msg, !.reads = r.reads,
                                   !.delivered = ok]
           /\ data' = IF r.kind = "send"
                      THEN SelectSeq(data, LAMBDA x : x # packet_id(buf))
                      ELSE data
    /\ UNCHANGED <<builder, nadds, phase, buf, rxAlive, nrecv, called>>
    /\ UNCHANGED task2

\* the rest of the iteration: header, subscription check, match, send
Process ==
    /\ pc = "processing"
    /\ IF ~ReadLeOk(PacketHeaderSize)
       THEN /\ pc' = "panicked"
            /\ UNCHANGED <<queue, last>>
       ELSE LET r == Iteration(data, buf)
                ok == r.kind = "send" /\ rxAlive
            IN  /\ pc' = IF r.kind = "send" THEN AfterSend(rxAlive)
                          ELSE "listening"
                /\ queue' = IF ok THEN Enqueue(queue, r.msg) ELSE queue
                /\ last' = [last EXCEPT !.done = TRUE, !.kind = r.kind,
                                        !.msg = r.msg, !.reads = r.reads,
                                        !.delivered = ok]
    /\ UNCHANGED <<builder, nadds, phase, data, buf, rxAlive, nrecv, called>>
    /\ UNCHANGED task2

\* the consumer drops its receiver: the channel closes, what it held is gone
ConsumerDrop ==
    /\ rxAlive
    /\ rxAlive' = FALSE
    /\ queue' = <<>>
    /\ UNCHANGED <<builder, nadds, phase, data, pc, buf, nrecv, called, last>>
    /\ UNCHANGED task2

\* a second telemetry.record(tx.clone()): another transmitter is spawned
\* with the same endpoint and data
RecordAgain ==
    /\ phase = "recorded"
    /\ pc2 = "none"
    /\ pc2' = "spawned"
    /\ UNCHANGED <<builder, nadds, phase, data, pc, buf, queue, rxAlive,
                   nrecv, called, last, buf2>>

\* (mutant) two sockets can be bound to the endpoint at once
Bind2OkSharedAddress ==
    /\ pc2 = "spawned"
    /\ pc2' = "listening"
    /\ buf2' = ZeroBytes
    /\ UNCHANGED <<builder, nadds, phase, data, pc, buf, queue, rxAlive,
                   nrecv, called, last>>

\* the second task's bind succeeds: no other socket is bound to the endpoint
Bind2Ok ==
    /\ pc2 = "spawned"
    /\ ~HoldsSocket(pc)
    /\ pc2' = "listening"
    /\ buf2' = ZeroBytes
    /\ UNCHANGED <<builder, nadds, phase, data, pc, buf, queue, rxAlive,
                   nrecv, called, last>>

\* the second task's bind fails (the address is in use, or any other
\* error): unwrap panics, the task ends
Bind2Fail ==
    /\ pc2 = "spawned"
    /\ pc2' = "bind_failed"
    /\ UNCHANGED <<builder, nadds, phase, data, pc, buf, queue, rxAlive,
                   nrecv, called, last, buf2>>

\* the second task's socket.recv returns Ok
Recv2(d) ==
    /\ pc2 = "listening"
    /\ nrecv < MaxRecv
    /\ pc2' = "processing"
    /\ buf2' = RecvInto(buf2, d)
    /\ nrecv' = nrecv + 1
    /\ UNCHANGED <<builder, nadds, phase, data, pc, buf, queue, rxAlive,
                   called, last>>

\* the second task's socket.recv returns Err
RecvErr2 ==
    /\ pc2 = "listening"
    /\ pc2' = "panicked"
    /\ UNCHANGED <<builder, nadds, phase, data, pc, buf, queue, rxAlive,
                   nrecv, called, last, buf2>>

\* the rest of the second task's iteration
Process2 ==
    /\ pc2 = "processing"
    /\ LET r == Iteration(data, buf2)
       IN  /\ pc2' = IF r.kind = "send" THEN AfterSend(rxAlive)
                     ELSE "listening"
           /\ queue' = IF r.kind = "send" /\ rxAlive
                       THEN Enqueue(queue, r.msg)
                       ELSE queue
    /\ UNCHANGED <<builder, nadds, phase, data, pc, buf, rxAlive, nrecv,
                   called, last, buf2>>

\* the datagrams fed to the program when record() is called twice
WorkerDatagrams ==
    {Craft(0, PacketMotionDataSize, {}), Event(STLG, LightsSample),
     Craft(0, 0, {})}

\* the program with record() called a second time
WorkersNext ==
    \/ \E op \in AddOps : AddOp(op, MaxAdds)
    \/ Build
    \/ Record
    \/ RecordAgain
    \/ BindOk
    \/ BindFail
    \/ Bind2Ok
    \/ Bind2Fail
    \/ \E d \in WorkerDatagrams : Recv(d)
    \/ RecvErr
    \/ Process
    \/ \E d \in WorkerDatagrams : Recv2(d)
    \/ RecvErr2
    \/ Process2
    \/ ConsumerDrop

WorkersSpec == Init /\ [][WorkersNext]_vars

Next ==
    \/ \E op \in AddOps : AddOp(op, MaxAdds)
    \/ Build
    \/ Record
    \/ BindOk
    \/ BindFail
    \/ \E d \in Datagrams : Recv(d)
    \/ RecvErr
    \/ Process
    \/ ConsumerDrop

Spec == Init /\ [][Next]_vars

\* the program fed with the packets that carry counted arrays
ArrayNext ==
    \/ \E op \in AddOps : AddOp(op, MaxAdds)
    \/ Build
    \/ Record
    \/ BindOk
    \/ \E d \in CountedDatagrams : Recv(d)
    \/ Process

ArraySpec == Init /\ [][ArrayNext]_vars

\* the builder alone: longer chains of add operations, then build()
BuilderNext ==
    \/ \E op \in AddOps : AddOp(op, MaxBuilderOps)
    \/ Build

BuilderSpec == Init /\ [][BuilderNext]_vars

-----------------------------------------------------------------------------
(* Vocabulary of the properties *)

\* id is in the subscription list that build() produced
Wanted(id) == \E i \in DOMAIN data : data[i] = id

\* the packet id each add operation stands for
IdOfAdd(op) ==
    CASE op = "add_motion_data" -> 0
      [] op = "add_session_data" -> 1
      [] op = "add_lap_data" -> 2
      [] op = "add_events_data" -> 3
      [] op = "add_participant_data" -> 4
      [] op = "add_car_setup_data" -> 5
      [] op = "add_car_telemetry_data" -> 6
      [] op = "add_car_status_data" -> 7
      [] op = "add_final_classification_data" -> 8
      [] op = "add_lobby_info_data" -> 9
      [] op = "add_car_damage_data" -> 10
      [] op = "add_session_history_data" -> 11

\* what the sender put into a datagram
HasPacketId(d) == d.len > PacketIdOffset
HasHeader(d) == d.len >= PacketHeaderSize
HasCode(d) == d.len >= EventDetailsOffset
DgramId(d) == ByteAt(d.bytes, PacketIdOffset)
DgramCode(d) == Chars4At(d.bytes, EventCodeOffset)

\* a complete packet of a non-event category / a complete event packet
WellFormedCategory(d, id) ==
    /\ id \in CategoryIds \ {3}
    /\ DgramId(d) = id
    /\ d.len >= SizeOf(WireSchema(id))

WellFormedEvent(d) == DgramId(d) = 3 /\ d.len >= EventPacketSize

\* the fields of a forwarded message the properties speak of
FuelInTankCar0(msg) == U32At(msg.body, Car0FuelOffset)
NumLights(msg) == U8At(msg.body, EventDetailsOffset)

\* the message that decoding datagram d alone with schema T gives
DecodedAs(T, d) == [schema |-> T, body |-> Prefix(d.bytes, SizeOf(T))]

\* the step that finishes the iteration of the datagram in last'.dgram
ProcessStep == ~last.done /\ last'.done

\* that step hands msg to the channel, once, and goes back to listening
Forwards(msg) ==
    /\ last'.kind = "send"
    /\ last'.msg = msg
    /\ queue' = IF rxAlive THEN Append(queue, msg) ELSE queue
    /\ pc' = "listening"

\* that step forwards nothing and goes back to listening
ForwardsNothing ==
    /\ last'.kind # "send"
    /\ last'.msg = NoMsg
    /\ queue' = queue
    /\ pc' = "listening"

-----------------------------------------------------------------------------
(* C1: after any chain of add operations and build(), the subscription    *)
(* list holds the id of every category whose add operation was called and *)
(* no id whose add operation was not called.                              *)
C1_BuildHoldsExactlyTheAddedIds ==
    phase = "telemetry" =>
        \A op \in AddOps \ {"add_all_data"} :
            op \in called <=> Wanted(IdOfAdd(op))

(* C2: a datagram whose packet id is not subscribed is dropped at the     *)
(* subscription check: nothing is decoded after the header, nothing is    *)
(* forwarded, and the loop is listening again.                            *)
C2_UnsubscribedIsSkippedUndecoded ==
    [][(ProcessStep /\ HasPacketId(last'.dgram)
          /\ ~Wanted(DgramId(last'.dgram)))
        => (ForwardsNothing /\ last'.kind = "not_wanted"
              /\ last'.reads = <<>>)]_vars

C2_Witness ==
    /\ last.done
    /\ data # <<>>
    /\ last.dgram \in CategoryDatagrams
    /\ ~Wanted(DgramId(last.dgram))
    /\ last.kind = "not_wanted"
    /\ pc = "listening"

(* C3: with CarStatus enabled through the builder, a well-formed          *)
(* CarStatus datagram is forwarded and the message's car-0 fuel_in_tank   *)
(* is the datagram's.                                                     *)
C3_CarStatusFuelIsForwarded ==
    (last.done /\ "add_car_status_data" \in called
        /\ WellFormedCategory(last.dgram, 7))
    => /\ last.kind = "send"
       /\ last.msg.schema = "PacketCarStatusData"
       /\ FuelInTankCar0(last.msg) = U32At(last.dgram.bytes, Car0FuelOffset)

(* C4: what an iteration does with a datagram (forward or not, and the    *)
(* message) depends on that datagram's bytes and the subscription list    *)
(* only: it is what the same datagram gives when nothing was received     *)
(* before it.                                                             *)
C4_OutcomeDependsOnDatagramOnly ==
    last.done =>
        LET alone == Iteration(data, RecvInto(ZeroBytes, last.dgram))
        IN  /\ (last.kind = "send") = (alone.kind = "send")
            /\ last.msg = alone.msg

\* the width of the record the packet id (and event code) of d selects
SelectedSize(d) ==
    IF DgramId(d) # 3 THEN SizeOf(WireSchema(DgramId(d)))
    ELSE IF HasCode(d) /\ DgramCode(d) \in PayloadCodes
    THEN PacketEventDataSize(PayloadOfCode(DgramCode(d)))
    ELSE EventDetailsOffset

(* C5: a subscribed datagram that holds a header and is shorter than the  *)
(* record its packet id selects is a decode error: no message is          *)
(* forwarded for it.                                                      *)
C5_TruncatedDatagramIsDecodeError ==
    (last.done /\ HasHeader(last.dgram)
        /\ DgramId(last.dgram) \in CategoryIds
        /\ Wanted(DgramId(last.dgram))
        /\ last.dgram.len < SelectedSize(last.dgram))
    => (last.kind = "failed" /\ last.msg = NoMsg /\ ~last.delivered)

\* the record type the sender's datagram d holds
ExpectedSchema(d) ==
    IF DgramId(d) = 3 THEN PayloadOfCode(DgramCode(d))
    ELSE WireSchema(DgramId(d))

(* C6 as stated: for every id in 0..11 that is subscribed, a well-formed  *)
(* datagram with that id is decoded and a message of that category is     *)
(* forwarded (for id 3: an event message).                                *)
C6_EveryWellFormedCategoryIsForwarded ==
    (last.done /\ Wanted(DgramId(last.dgram))
        /\ \/ WellFormedCategory(last.dgram, DgramId(last.dgram))
           \/ WellFormedEvent(last.dgram))
    => /\ last.kind = "send"
       /\ IF DgramId(last.dgram) = 3
          THEN last.msg.schema \in EventPayloads
          ELSE last.msg.schema = WireSchema(DgramId(last.dgram))

(* C6 amended: for every subscribed id in 0..11 other than 3, and for id  *)
(* 3 when the event code is payload-bearing, a well-formed datagram is    *)
(* decoded with the schema of its id (of its code) from its own bytes,    *)
(* and that message is what is forwarded.                                 *)
C6_WellFormedPayloadIsDecodedAndForwarded ==
    [][(ProcessStep /\ Wanted(DgramId(last'.dgram))
          /\ \/ WellFormedCategory(last'.dgram, DgramId(last'.dgram))
             \/ /\ WellFormedEvent(last'.dgram)
                /\ DgramCode(last'.dgram) \in PayloadCodes)
        => Forwards(DecodedAs(ExpectedSchema(last'.dgram), last'.dgram))]_vars

C6_Witness ==
    /\ last.done
    /\ last.dgram \in CategoryDatagrams
    /\ Wanted(DgramId(last.dgram))
    /\ last.kind = "send"
    /\ last.msg.schema = WireSchema(DgramId(last.dgram))
    /\ queue # <<>>
    /\ queue[Len(queue)] = last.msg

(* C7: a well-formed event datagram with one of the six zero-payload      *)
(* codes is never forwarded, subscribed or not, and the loop is           *)
(* listening again.                                                       *)
C7_ZeroPayloadEventsAreDropped ==
    [][(ProcessStep /\ WellFormedEvent(last'.dgram)
          /\ DgramCode(last'.dgram) \in ZeroPayloadCodes)
        => ForwardsNothing]_vars

C7_Witness ==
    /\ last.done
    /\ Wanted(3)
    /\ WellFormedEvent(last.dgram)
    /\ DgramCode(last.dgram) \in ZeroPayloadCodes
    /\ last.reads = <<"EventFlashback">>
    /\ last.kind = "failed"
    /\ pc = "listening"

(* C8: a subscribed well-formed event datagram with a payload-bearing     *)
(* code is decoded with the payload schema of that code and forwarded;    *)
(* with a code outside the payload-bearing and zero-payload sets nothing  *)
(* is forwarded.                                                          *)
C8_EventCodeSelectsPayloadSchema ==
    [][(ProcessStep /\ Wanted(3) /\ WellFormedEvent(last'.dgram))
        => /\ DgramCode(last'.dgram) \in PayloadCodes
                => Forwards(DecodedAs(PayloadOfCode(DgramCode(last'.dgram)),
                                      last'.dgram))
           /\ DgramCode(last'.dgram) \notin PayloadCodes \cup ZeroPayloadCodes
                => ForwardsNothing]_vars

C8_Witness ==
    /\ last.done
    /\ Wanted(3)
    /\ WellFormedEvent(last.dgram)
    /\ DgramCode(last.dgram) = SPTP
    /\ last.kind = "send"
    /\ last.msg.schema = "EventSpeedTrap"
    /\ last.reads = <<"EventFlashback", "EventSpeedTrap">>

\* an unknown code has been dropped
C8_WitnessUnknown ==
    /\ last.done
    /\ Wanted(3)
    /\ WellFormedEvent(last.dgram)
    /\ DgramCode(last.dgram) = XXXX
    /\ last.kind = "failed"

(* C9: with events subscribed, a StartLights datagram (code STLG) with    *)
(* num_lights = n puts exactly one message on the channel, and its        *)
(* num_lights is n.                                                       *)
C9_StartLightsEndToEnd ==
    [][(ProcessStep /\ Wanted(3) /\ rxAlive
          /\ DgramId(last'.dgram) = 3
          /\ last'.dgram.len >= PacketEventDataSize("EventStartLights")
          /\ DgramCode(last'.dgram) = STLG)
        => /\ Len(queue') = Len(queue) + 1
           /\ SubSeq(queue', 1, Len(queue)) = queue
           /\ queue'[Len(queue')].schema = "EventStartLights"
           /\ NumLights(queue'[Len(queue')])
                = U8At(last'.dgram.bytes, EventDetailsOffset)]_vars

C9_Witness ==
    /\ last.done
    /\ Wanted(3)
    /\ last.dgram = Event(STLG, LightsSample)
    /\ queue # <<>>
    /\ queue[Len(queue)].schema = "EventStartLights"
    /\ NumLights(queue[Len(queue)]) = LightsSample

(* C10: a datagram whose packet id is outside 0..11 is skipped: no schema *)
(* is applied, nothing reaches the channel, and the loop is listening     *)
(* again.                                                                 *)
C10_UnknownPacketIdIsSkipped ==
    [][(ProcessStep /\ HasPacketId(last'.dgram)
          /\ DgramId(last'.dgram) \notin CategoryIds)
        => (ForwardsNothing /\ last'.reads = <<>>
              /\ last'.kind \in {"not_wanted", "skipped"})]_vars

C10_Witness ==
    /\ last.done
    /\ data # <<>>
    /\ last.dgram \in UnknownDatagrams
    /\ last.kind = "not_wanted"
    /\ last.reads = <<>>
    /\ pc = "listening"

(* C11: a decode failure is scoped to its datagram: nothing is forwarded  *)
(* for the datagram that failed, and the datagram received after it is    *)
(* processed as if the failed one had never been received (here: the      *)
(* failed datagram was the first one, so without it the buffer is still   *)
(* as the bind left it).                                                  *)
C11_DecodeFailureIsScopedToItsDatagram ==
    /\ (last.done /\ last.kind = "failed")
          => (last.msg = NoMsg /\ ~last.delivered)
    /\ (last.done /\ last.prev.kind = "failed" /\ nrecv = 2)
          => LET alone == Iteration(data, RecvInto(ZeroBytes, last.dgram))
             IN  /\ (last.kind = "send") = (alone.kind = "send")
                 /\ last.msg = alone.msg

(* C12: when the consumer end of the channel is gone, the failed send is  *)
(* ignored: the iteration ends listening with nothing put on the channel, *)
(* and so does the iteration of every later datagram.                     *)
C12_SendFailureIsIgnored ==
    [][(ProcessStep /\ ~rxAlive)
        => /\ pc' = "listening"
           /\ queue' = queue
           /\ ~last'.delivered
           /\ last'.kind = "send" => last'.msg # NoMsg]_vars

\* a datagram has been processed after an earlier send had failed, and its
\* own send failed as well
C12_Witness ==
    /\ last.done
    /\ ~rxAlive
    /\ last.prev.kind = "send"
    /\ ~last.prev.delivered
    /\ last.kind = "send"
    /\ ~last.delivered
    /\ pc = "listening"

(* C13: once the loop is listening it never leaves the loop: every step   *)
(* taken while listening or processing ends listening or processing.      *)
C13_LoopHasNoTerminalState ==
    [][(pc \in {"listening", "processing"})
        => (pc' \in {"listening", "processing"})]_vars

(* C14: when the bind fails the task stays where it failed: listening is  *)
(* never entered, no datagram is received or processed, and nothing is    *)
(* ever put on the channel.                                               *)
C14_BindFailureNeverStartsTheLoop ==
    [][(pc = "bind_failed" \/ pc' = "bind_failed")
        => /\ pc' = "bind_failed"
           /\ nrecv' = 0
           /\ buf' = ZeroBytes
           /\ queue' = <<>>
           /\ last' = NoLast]_vars

C14_Witness ==
    /\ pc = "bind_failed"
    /\ phase = "recorded"
    /\ data # <<>>
    /\ nrecv = 0
    /\ queue = <<>>

(* C15: record() returns in the step that spawns the task: when it        *)
(* returns the task has not bound its socket, no datagram has been        *)
(* received and nothing the task holds has changed.                       *)
C15_RecordReturnsAfterSpawning ==
    [][(phase = "telemetry" /\ phase' = "recorded")
        => /\ pc' = "spawned"
           /\ nrecv' = 0
           /\ UNCHANGED <<buf, queue, last, data>>]_vars

\* the caller is past record() and has gone on (it dropped its receiver)
\* while the task has not yet tried to bind
C15_Witness ==
    /\ phase = "recorded"
    /\ pc = "spawned"
    /\ ~rxAlive
    /\ nrecv = 0

(* C16: in every state after build(), whatever the loop has done, the     *)
(* subscription list is the one build() produced from the builder.        *)
C16_SubscriptionListIsImmutable ==
    phase # "builder" => data = build(builder)

C16_Witness ==
    /\ last.done
    /\ nrecv = MaxRecv
    /\ last.kind = "send"
    /\ last.prev.kind = "send"
    /\ data # <<>>
    /\ data = build(builder)

(* C17: once every non-event add operation has been called (add_all_data  *)
(* calls them all), build() gives exactly the ids 0,1,2,4,...,11,         *)
(* together with 3 if and only if add_events_data was called.             *)
C17_AddAllSubscribesEveryNonEventCategory ==
    (phase = "telemetry"
        /\ (AddOps \ {"add_all_data", "add_events_data"}) \subseteq called)
    => {data[i] : i \in DOMAIN data}
         = (CategoryIds \ {3})
             \cup (IF "add_events_data" \in called THEN {3} ELSE {})

(* C18: a datagram shorter than the header is not routed: no schema is    *)
(* applied to it and nothing is forwarded for it.                         *)
C18_ShortDatagramIsNotRouted ==
    (last.done /\ ~HasHeader(last.dgram))
    => /\ last.kind \notin {"send", "failed"}
       /\ last.reads = <<>>
       /\ last.msg = NoMsg
       /\ ~last.delivered

\* the routing key of a datagram: its packet id and, for id 3, its event
\* code
RoutingKey(d) ==
    <<DgramId(d), IF DgramId(d) = 3 THEN DgramCode(d) ELSE <<>> >>

\* the datagrams long enough to hold their routing key
Keyed ==
    {d \in Datagrams : HasPacketId(d) /\ (DgramId(d) = 3 => HasCode(d))}

\* the datagrams of each routing key
DatagramsOfKey ==
    [k \in {RoutingKey(d) : d \in Keyed}
        |-> {d \in Keyed : RoutingKey(d) = k}]

\* the routing decision of an iteration: skip, or the schemas applied
Routing(r) ==
    IF r.kind \in {"not_wanted", "skipped"} THEN <<"skip">> ELSE r.reads

(* C19: any datagram with the same packet id (and, for id 3, the same     *)
(* event code) as the one just processed gets the same routing decision   *)
(* under the same subscription list, whatever its other bytes are.        *)
C19_PacketIdIsTheSoleRoutingKey ==
    (last.done /\ last.dgram \in Keyed) =>
        \A d \in DatagramsOfKey[RoutingKey(last.dgram)] :
            Routing(Iteration(data, RecvInto(buf, d))) = Routing(last)

\* the Motion datagram with the other header fields set has been routed,
\* and the plain Motion datagram shares its key
C19_Witness ==
    /\ last.done
    /\ last.dgram \in NoisyDatagrams
    /\ Wanted(0)
    /\ DgramId(last.dgram) = 0
    /\ Routing(last) = <<"PacketMotionData">>
    /\ \E d \in CategoryDatagrams :
          d # last.dgram /\ d \in DatagramsOfKey[RoutingKey(last.dgram)]

\* same for two events with an unknown code, which are both dropped after
\* the event header has been read
C19_WitnessEvent ==
    /\ last.done
    /\ last.dgram \in NoisyDatagrams
    /\ Wanted(3)
    /\ DgramId(last.dgram) = 3
    /\ Routing(last) = <<"EventFlashback">>
    /\ Event(XXXX, 0) \in DatagramsOfKey[RoutingKey(last.dgram)]

(* C20: the event code is read only for packet id 3; a subscribed,        *)
(* well-formed datagram of another category whose four bytes after the    *)
(* header spell a zero-payload or unknown event code is decoded with its  *)
(* category schema and forwarded.                                         *)
C20_CategoryDispatchPrecedesEventDispatch ==
    /\ (last.done /\ last.reads # <<>>
          /\ Head(last.reads) = "EventFlashback")
        => U8At(buf, PacketIdOffset) = 3
    /\ (last.done /\ Wanted(DgramId(last.dgram))
          /\ WellFormedCategory(last.dgram, DgramId(last.dgram))
          /\ DgramCode(last.dgram) \in ZeroPayloadCodes \cup {XXXX})
        => /\ last.kind = "send"
           /\ last.reads = <<WireSchema(DgramId(last.dgram))>>
           /\ last.msg = DecodedAs(WireSchema(DgramId(last.dgram)),
                                   last.dgram)

C20_Witness ==
    /\ last.done
    /\ Wanted(0)
    /\ WellFormedCategory(last.dgram, 0)
    /\ DgramCode(last.dgram) = SSTA
    /\ last.kind = "send"
    /\ last.msg.schema = "PacketMotionData"
    /\ Chars4At(last.msg.body, EventCodeOffset) = SSTA

\* same with an unknown code after a Session header
C20_WitnessUnknown ==
    /\ last.done
    /\ Wanted(1)
    /\ WellFormedCategory(last.dgram, 1)
    /\ DgramCode(last.dgram) = XXXX
    /\ last.kind = "send"
    /\ last.msg.schema = "PacketSessionData"

\* every schema the dispatcher can select, by the name of its Rust type
Schemas == {WireSchema(id) : id \in CategoryIds \ {3}} \cup EventPayloads

(* C21: the receive buffer is wider than the header, than each of the 11  *)
(* non-event records and than the event record of every payload; so is    *)
(* every record the loop has tried to decode.                             *)
C21_BufferExceedsEverySchema ==
    /\ PacketHeaderSize < BUFFER_SIZE
    /\ \A T \in Schemas : SizeOf(T) < BUFFER_SIZE
    /\ \A i \in DOMAIN last.reads : SizeOf(last.reads[i]) < BUFFER_SIZE

\* the widest record has been decoded from the buffer and forwarded
C21_Witness ==
    /\ last.done
    /\ last.kind = "send"
    /\ SizeOf(last.msg.schema) = MaxOf({SizeOf(T) : T \in Schemas})
    /\ last.msg.schema = "PacketMotionData"

(* C22: whatever value the count field holds, a forwarded record with a   *)
(* counted array holds every element of the array and every field after   *)
(* it at the offsets they have in the datagram: the array lies wholly     *)
(* inside the record and the record's bytes from the array on are the     *)
(* datagram's.                                                            *)
C22_FixedArraysAreDecodedInFull ==
    (last.done /\ last.kind = "send"
        /\ WellFormedCategory(last.dgram, DgramId(last.dgram)))
    => \A a \in CountedArrays :
          a.schema = last.msg.schema
            => /\ a.first + a.slots * a.width <= SizeOf(a.schema)
               /\ {p \in last.msg.body : p[1] >= a.first}
                    = {p \in last.dgram.bytes :
                         p[1] >= a.first /\ p[1] < SizeOf(a.schema)}

\* a record whose count field is 1 has been forwarded with the mark of its
\* last element in place
C22_Witness ==
    /\ last.done
    /\ last.kind = "send"
    /\ last.dgram \in CountedDatagrams
    /\ \E a \in CountedArrays :
          /\ a.schema = last.msg.schema
          /\ a.slots > 1
          /\ U8At(last.dgram.bytes, a.count) = 1
          /\ U8At(last.msg.body, a.first + (a.slots - 1) * a.width) = 170

\* the records of the subscribed categories
SubscribedSchemas ==
    {WireSchema(id) : id \in {x \in CategoryIds \ {3} : Wanted(x)}}
      \cup (IF Wanted(3) THEN EventPayloads ELSE {})

(* C23: everything on the channel is the record of a subscribed category: *)
(* no empty message is on it, and an iteration that ended at the          *)
(* subscription check, in a continue arm or in a decode error has put     *)
(* nothing on it.                                                         *)
C23_OnlyDecodedRecordsAreEnqueued ==
    /\ \A i \in DOMAIN queue :
          queue[i] # NoMsg /\ queue[i].schema \in SubscribedSchemas
    /\ (last.done /\ last.kind # "send")
          => (~last.delivered /\ last.msg = NoMsg)
    /\ last.delivered => last.msg.schema \in SubscribedSchemas

\* a dropped event after a forwarded one: the channel holds the one record
C23_Witness ==
    /\ last.done
    /\ last.kind = "failed"
    /\ last.prev.kind = "send"
    /\ last.prev.delivered
    /\ Len(queue) = 1
    /\ queue[1].schema \in EventPayloads

C25_WitnessTakeOver ==
    /\ pc = "panicked"
    /\ pc2 = "processing"
    /\ nrecv = MaxRecv

(* C26: a message joins the channel behind every message forwarded        *)
(* before it, in the step that completes the iteration of its datagram;   *)
(* and a datagram is received only when the loop is listening, the        *)
(* iteration of the datagram before it being complete.                    *)
C26_ForwardedInReceiveOrder ==
    [][/\ (rxAlive' /\ queue' # queue)
            => /\ ProcessStep
               /\ last'.kind = "send"
               /\ queue' = Append(queue, last'.msg)
       /\ nrecv' # nrecv
            => /\ pc = "listening"
               /\ pc' = "processing"
               /\ nrecv > 0 => last.done]_vars

\* two datagrams have been forwarded: the first one's message is ahead
C26_Witness ==
    /\ last.done
    /\ last.kind = "send"
    /\ last.prev.kind = "send"
    /\ Len(queue) = 2
    /\ queue[2] = last.msg
    /\ queue[1] # queue[2]

(* C27: a forwarded message comes from a datagram that holds a packet id  *)
(* which is subscribed and in 0..11 and, when the id is 3, holds a        *)
(* payload-bearing event code.                                            *)
C27_ForwardedMeansSubscribedDatagram ==
    (last.done /\ last.kind = "send")
    => /\ HasPacketId(last.dgram)
       /\ Wanted(DgramId(last.dgram))
       /\ DgramId(last.dgram) \in CategoryIds
       /\ DgramId(last.dgram) = 3
            => (HasCode(last.dgram) /\ DgramCode(last.dgram) \in PayloadCodes)

-----------------------------------------------------------------------------
\* the add operations of one category each
CategoryAdds == AddOps \ {"add_all_data"}

\* the record(s) of the category each add operation enables
SchemasOfAdd(op) ==
    IF op = "add_events_data" THEN EventPayloads ELSE {WireSchema(IdOfAdd(op))}

\* the ids add operation op records in a fresh builder
RecordedIds(op) ==
    {Apply(op, new)[f][1] : f \in {g \in Fields : Apply(op, new)[g] # None}}

\* the buffers the dispatch match is tried on
SampleBuffers == {d.bytes : d \in Datagrams}

\* each add operation records one id, and the dispatch match decodes the
\* record of that operation's category under that id and under no other
DispatchAgreesWithBuilder ==
    \A op \in CategoryAdds :
        /\ Cardinality(RecordedIds(op)) = 1
        /\ \A k \in CategoryIds \cup UnknownIds, b \in SampleBuffers :
              LET r == MatchPacketId(k, b)
              IN  /\ (r.kind = "tel" /\ r.ok /\ r.val.schema \in SchemasOfAdd(op))
                        => k \in RecordedIds(op)
                  /\ (r.kind = "tel" /\ r.ok /\ k \in RecordedIds(op))
                        => r.val.schema \in SchemasOfAdd(op)
        /\ \E k \in RecordedIds(op), b \in SampleBuffers :
              LET r == MatchPacketId(k, b)
              IN  r.kind = "tel" /\ r.ok /\ r.val.schema \in SchemasOfAdd(op)

(* C28: the id an add operation records is the id under which the         *)
(* dispatch match decodes that category's record, and no other id decodes *)
(* it; so every forwarded record is the record of a category whose add    *)
(* operation was called, and it was routed by that operation's id.        *)
C28_BuilderAndDispatcherAgreeOnIds ==
    /\ DispatchAgreesWithBuilder
    /\ (last.done /\ last.kind = "send")
          => \E op \in called :
                /\ last.msg.schema \in SchemasOfAdd(op)
                /\ last.reads[Len(last.reads)] = last.msg.schema
                /\ HasPacketId(last.dgram)
                      => DgramId(last.dgram) \in RecordedIds(op)

\* car damage was enabled and a datagram with id 10 was forwarded as
\* PacketCarDamageData
C28_Witness ==
    /\ called = {"add_car_damage_data"}
    /\ last.done
    /\ last.kind = "send"
    /\ last.delivered
    /\ DgramId(last.dgram) = IdOfAdd("add_car_damage_data")
    /\ HasHeader(last.dgram)
    /\ last.msg.schema = "PacketCarDamageData"

-----------------------------------------------------------------------------
\* every value of PacketHeader.packet_id, a u8
PacketIds == 0..255

\* a buffer whose event code has a payload, so that the event arm binds tel
PayloadEventBuffer == Event(STLG, LightsSample).bytes

\* the buffer after a header-only datagram with packet id id
HeaderOnlyBuffer(id) == RecvInto(PayloadEventBuffer, Craft(id, PacketHeaderSize, {}))

(* C29: the list build() returns holds only ids in 0..11; so an iteration *)
(* on a packet id of 12 or more always ends at the subscription check,    *)
(* and an id that passes the check is matched by one of the twelve        *)
(* category arms, never by the catch-all arm.                             *)
C29_SubscriptionListIsWithinCategoryIds ==
    phase = "telemetry" =>
        /\ \A i \in DOMAIN data : data[i] \in CategoryIds
        /\ \A id \in PacketIds \ CategoryIds :
              /\ NotInterested(data, id)
              /\ Iteration(data, HeaderOnlyBuffer(id)).kind = "not_wanted"
        /\ \A id \in PacketIds :
              ~NotInterested(data, id)
                  => /\ MatchPacketId(id, PayloadEventBuffer).kind = "tel"
                     /\ Iteration(data, HeaderOnlyBuffer(id)).kind = "send"

\* build() after three operations, add_all_data and add_events_data among
\* them: the list holds the highest id and the event id
C29_Witness ==
    /\ phase = "telemetry"
    /\ nadds = MaxBuilderOps
    /\ {"add_events_data", "add_session_history_data", "add_motion_data"}
          \subseteq called
    /\ Contains(data, 11)
    /\ Contains(data, 3)
    /\ Contains(data, 0)

-----------------------------------------------------------------------------
\* the set of packet ids in a subscription list
IdSet(vec) == {vec[i] : i \in DOMAIN vec}

\* the builder after calling each operation of S once, in one fixed order
RECURSIVE BuilderOf(_)
BuilderOf(S) ==
    IF S = {} THEN new
    ELSE LET op == CHOOSE o \in S : TRUE
         IN  Apply(op, BuilderOf(S \ {op}))

(* C30: add operations are idempotent and commute: from every builder     *)
(* state, calling an operation twice gives the ids of calling it once,    *)
(* and two operations give the same ids in either order; so the ids of    *)
(* the list build() returns are those of calling each called operation    *)
(* once in a fixed order.                                                 *)
C30_AddOperationsAreIdempotentAndCommute ==
    /\ phase = "builder" =>
          \A x, y \in AddOps :
              /\ IdSet(build(Apply(x, Apply(x, builder))))
                    = IdSet(build(Apply(x, builder)))
              /\ IdSet(build(Apply(x, Apply(y, builder))))
                    = IdSet(build(Apply(y, Apply(x, builder))))
    /\ phase = "telemetry" => IdSet(data) = IdSet(build(BuilderOf(called)))

\* build() after three calls of two operations: one was called twice
C30_Witness ==
    /\ phase = "telemetry"
    /\ nadds = MaxBuilderOps
    /\ called = {"add_lap_data", "add_motion_data"}
    /\ IdSet(data) = {0, 2}

====
